---- MODULE Spec2Model ----
(***************************************************************************)
(* A model of dependente: the source validator, the configuration-file     *)
(* locator, the two format extractors with their cache, the version pinner *)
(* and the command line driver.                                            *)
(*                                                                         *)
(* A text (a requirement line, a configuration value, a group name) is a   *)
(* sequence of one-character strings, so that strip, split and replace are *)
(* computed character by character as the Python string methods do.        *)
(* A Python exception is the "kind" field of a result: the error kind the  *)
(* message of the raised exception stands for, "ok" when nothing is        *)
(* raised.                                                                 *)
(***************************************************************************)
EXTENDS Integers, Sequences, FiniteSets, TLC

VARIABLES
    op,            \* the operation this run calls
    pc,            \* "ready" before the call, then the position of the run
    sources,       \* the requested list of sources (argument)
    files,         \* the configuration files present in the working directory
    cfgFile,       \* the parsed content of setup.cfg
    tomlFile,      \* the parsed content of pyproject.toml
    requirements,  \* the argument of pin_to_oldest
    oldest,        \* what pin_to_oldest returns for requirements
    again,         \* what pin_to_oldest returns for oldest
    err,           \* kind of the exception raised, "ok" when none
    named,         \* the set of sources the InvalidCategory message names
    repeated,      \* the list the DuplicateCategory message names
    plan,          \* the locator's result: <<[file, categories], ...>>; in main,
                   \* the dictionary parse_sources returns, as its items
    extracted,     \* the files handed to an extractor so far, in order
    out,           \* the list of lines an operation returns
    source,        \* the text given to main with --source
    config_file,   \* main: the position of the loop over the dictionary sources
    dependencies,  \* main: the lines collected from the files parsed so far
    stdout,        \* main: the lines written to standard output so far
    status,        \* main: the exit status of the process, -1 while it runs
    parser,        \* the parser instances: class, file, cache, times opened
    calls,         \* the number of accesses made to the parser instances
    returned       \* what the last access to a parser instance returned

\* the state of a run of main
driverVars == <<source, config_file, dependencies, stdout, status>>

\* the state of the parser instances
cacheVars == <<parser, calls, returned>>

vars == <<op, pc, sources, files, cfgFile, tomlFile, requirements, oldest,
          again, err, named, repeated, plan, extracted, out, driverVars,
          cacheVars>>

(***************************************************************************)
(* Bounds of the model.                                                    *)
(***************************************************************************)
MaxSources == 3      \* longest requested list given to validate_sources
MaxLines == 2        \* longest list of lines given to pin_to_oldest
MaxChars == 4        \* most characters in the lines of such a list, together
MaxEntries == 2      \* most entries a configuration file declares, together
MaxGroups == 2       \* most extras groups a configuration file declares

(***************************************************************************)
(* Sequences and texts.                                                    *)
(***************************************************************************)
Range(s) == {s[i] : i \in 1..Len(s)}

SeqsUpTo(S, n) == UNION {[1..k -> S] : k \in 0..n}

\* list.count(x)
Count(s, x) == Cardinality({i \in 1..Len(s) : s[i] = x})

\* the characters str.strip() removes
Whitespace == {" ", "\t", "\n"}

RECURSIVE LStrip(_)
LStrip(s) ==
    IF s = <<>> THEN s
    ELSE IF Head(s) \in Whitespace THEN LStrip(Tail(s)) ELSE s

RECURSIVE RStrip(_)
RStrip(s) ==
    IF s = <<>> THEN s
    ELSE IF s[Len(s)] \in Whitespace THEN RStrip(SubSeq(s, 1, Len(s) - 1)) ELSE s

\* str.strip()
Strip(s) == RStrip(LStrip(s))

\* str.startswith(p)
StartsWith(s, p) == Len(s) >= Len(p) /\ SubSeq(s, 1, Len(p)) = p

\* str.split(c): the parts between the occurrences of the character c
RECURSIVE SplitAcc(_, _, _)
SplitAcc(s, c, cur) ==
    IF s = <<>> THEN <<cur>>
    ELSE IF Head(s) = c THEN <<cur>> \o SplitAcc(Tail(s), c, <<>>)
    ELSE SplitAcc(Tail(s), c, Append(cur, Head(s)))

Split(s, c) == SplitAcc(s, c, <<>>)

\* str.replace(old, new): left to right, occurrences that do not overlap
RECURSIVE Replace(_, _, _)
Replace(s, old, new) ==
    IF s = <<>> THEN s
    ELSE IF StartsWith(s, old)
         THEN new \o Replace(SubSeq(s, Len(old) + 1, Len(s)), old, new)
         ELSE <<Head(s)>> \o Replace(Tail(s), old, new)

\* "sep".join(parts)
RECURSIVE Join(_, _)
Join(parts, sep) ==
    IF parts = <<>> THEN <<>>
    ELSE IF Len(parts) = 1 THEN parts[1]
    ELSE parts[1] \o sep \o Join(Tail(parts), sep)

\* the concatenation of a list of lists
RECURSIVE Flatten(_)
Flatten(ss) == IF ss = <<>> THEN <<>> ELSE Head(ss) \o Flatten(Tail(ss))

\* the sum of a list of numbers
RECURSIVE Sum(_)
Sum(ns) == IF ns = <<>> THEN 0 ELSE Head(ns) + Sum(Tail(ns))

\* the list flat cut into pieces of the lengths lens
Cut(flat, lens) ==
    [i \in 1..Len(lens) |->
        SubSeq(flat, Sum(SubSeq(lens, 1, i - 1)) + 1, Sum(SubSeq(lens, 1, i)))]

(***************************************************************************)
(* parsers.py: validate_sources                                            *)
(***************************************************************************)
valid_sources == {"build", "install", "extras"}

\* every string a request may hold: the vocabulary and two strangers
SourceNames == valid_sources \cup {"invalid", "docs"}

SourceLists == SeqsUpTo(SourceNames, MaxSources)

Ok == [kind |-> "ok", named |-> {}, repeated |-> <<>>]

Raise(k) == [kind |-> k, named |-> {}, repeated |-> <<>>]

\* a variant that never looks for repeated sources
validate_sources_no_repeat_check(S) ==
    IF S = <<>> THEN Raise("EmptyInput")
    ELSE IF ~(Range(S) \subseteq valid_sources)
         THEN [kind |-> "InvalidCategory",
               named |-> valid_sources \ Range(S), repeated |-> <<>>]
         ELSE Ok

validate_sources(S) ==
    IF S = <<>> THEN Raise("EmptyInput")
    ELSE IF ~(Range(S) \subseteq valid_sources)
         THEN [kind |-> "InvalidCategory",
               named |-> valid_sources \ Range(S), repeated |-> <<>>]
         ELSE LET repeated_sources == SelectSeq(S, LAMBDA s : Count(S, s) > 1)
              IN  IF repeated_sources # <<>>
                  THEN [kind |-> "DuplicateCategory", named |-> {},
                        repeated |-> repeated_sources]
                  ELSE Ok

(***************************************************************************)
(* The run that calls validate_sources on an arbitrary list of strings.    *)
(***************************************************************************)
\* a file that holds nothing
NoCfg ==
    [options |-> FALSE,
     install_requires |-> [has |-> FALSE, value |-> <<>>],
     extras_require |-> [has |-> FALSE, items |-> <<>>]]

NoToml ==
    [build_system |-> [has |-> FALSE, requires |-> [has |-> FALSE, value |-> <<>>]],
     project |-> [has |-> FALSE,
                  dependencies |-> [has |-> FALSE, value |-> <<>>],
                  optional_dependencies |-> [has |-> FALSE, items |-> <<>>]]]

\* nothing has been returned or raised yet
Idle ==
    /\ oldest = <<>>
    /\ again = <<>>
    /\ err = "ok"
    /\ named = {}
    /\ repeated = <<>>
    /\ plan = <<>>
    /\ extracted = <<>>
    /\ out = <<>>
    /\ config_file = 1
    /\ dependencies = <<>>
    /\ stdout = <<>>
    /\ status = -1
    /\ calls = 0
    /\ returned = [kind |-> "none", who |-> 0, call |-> "none", value |-> <<>>]

InitValidate ==
    /\ op = "validate_sources"
    /\ pc = "ready"
    /\ sources \in SourceLists
    /\ files = {}
    /\ cfgFile = NoCfg
    /\ tomlFile = NoToml
    /\ requirements = <<>>
    /\ source = <<>>
    /\ parser = <<>>
    /\ Idle

ValidateSources ==
    /\ op = "validate_sources"
    /\ pc = "ready"
    /\ LET r == validate_sources(sources)
       IN  /\ err' = r.kind
           /\ named' = r.named
           /\ repeated' = r.repeated
    /\ pc' = "done"
    /\ UNCHANGED <<op, sources, files, cfgFile, tomlFile, requirements,
                   oldest, again, plan, extracted, out>>
    /\ UNCHANGED <<driverVars, cacheVars>>

SpecValidate == InitValidate /\ [][ValidateSources]_vars

Validated == op = "validate_sources" /\ pc = "done"

HasInvalid(S) == \E i \in 1..Len(S) : S[i] \notin {"install", "extras", "build"}
HasRepeat(S) == \E i, j \in 1..Len(S) : i # j /\ S[i] = S[j]

\* C1 (as stated): validate_sources succeeds on a non-empty, duplicate-free
\* list of install/extras/build, fails with EmptyInput on the empty list, with
\* InvalidCategory whenever an entry is outside the vocabulary, and with
\* DuplicateCategory whenever an entry occurs more than once.
C1_AsStated ==
    Validated =>
        /\ (sources # <<>> /\ ~HasInvalid(sources) /\ ~HasRepeat(sources)
                => err = "ok")
        /\ (sources = <<>> => err = "EmptyInput")
        /\ (HasInvalid(sources) => err = "InvalidCategory")
        /\ (HasRepeat(sources) => err = "DuplicateCategory")

\* C1 (amended): validate_sources succeeds on a non-empty, duplicate-free list
\* of install/extras/build, fails with EmptyInput on the empty list, with
\* InvalidCategory whenever an entry is outside the vocabulary, and with
\* DuplicateCategory when an entry occurs more than once and every entry is in
\* the vocabulary.
C1_ValidationKinds ==
    Validated =>
        /\ (sources # <<>> /\ ~HasInvalid(sources) /\ ~HasRepeat(sources)
                => err = "ok")
        /\ (sources = <<>> => err = "EmptyInput")
        /\ (HasInvalid(sources) => err = "InvalidCategory")
        /\ (HasRepeat(sources) /\ ~HasInvalid(sources)
                => err = "DuplicateCategory")

C1_Witness ==
    /\ Validated
    /\ sources = <<"build", "extras", "build">>
    /\ err = "DuplicateCategory"

\* C2: when validate_sources fails with InvalidCategory, the entries the error
\* names are exactly the requested entries outside {install, extras, build}.
C2_NamesInvalidEntries ==
    (Validated /\ err = "InvalidCategory") =>
        named = {s \in Range(sources) : s \notin {"install", "extras", "build"}}

(***************************************************************************)
(* converters.py: pin_to_oldest                                            *)
(***************************************************************************)
\* the characters of the lines given to pin_to_oldest: a letter, the two
\* characters of the operator, the clause separator, a blank and the comment
\* mark
PinChars == {"a", ">", "=", ",", " ", "#"}

\* a variant that does not strip the pinned clause
pin_line_no_strip(line) ==
    IF StartsWith(Strip(line), <<"#">>) THEN line
    ELSE Replace(Split(line, ",")[1], <<">", "=">>, <<"=", "=">>)

\* a variant that doubles every "=" instead of rewriting ">="
pin_line_doubles_equals(line) ==
    IF StartsWith(Strip(line), <<"#">>) THEN line
    ELSE Strip(Replace(Split(line, ",")[1], <<"=">>, <<"=", "=">>))

\* the body of the loop of pin_to_oldest, for one line
pin_line(line) ==
    IF StartsWith(Strip(line), <<"#">>) THEN line
    ELSE Strip(Replace(Split(line, ",")[1], <<">", "=">>, <<"=", "=">>))

pin_to_oldest(reqs) == [i \in 1..Len(reqs) |-> pin_line(reqs[i])]

(***************************************************************************)
(* The run that pins an arbitrary list of lines, then pins the result.     *)
(***************************************************************************)
InitPin ==
    /\ op = "pin_to_oldest"
    /\ pc = "ready"
    /\ sources = <<>>
    /\ files = {}
    /\ cfgFile = NoCfg
    /\ tomlFile = NoToml
    /\ \E m \in 0..MaxLines : \E lens \in [1..m -> 0..MaxChars] :
          /\ Sum(lens) <= MaxChars
          /\ \E flat \in [1..Sum(lens) -> PinChars] :
                requirements = Cut(flat, lens)
    /\ source = <<>>
    /\ parser = <<>>
    /\ Idle

PinToOldest ==
    /\ op = "pin_to_oldest"
    /\ pc = "ready"
    /\ oldest' = pin_to_oldest(requirements)
    /\ pc' = "pinned"
    /\ UNCHANGED <<op, sources, files, cfgFile, tomlFile, requirements, again,
                   err, named, repeated, plan, extracted, out>>
    /\ UNCHANGED <<driverVars, cacheVars>>

PinAgain ==
    /\ op = "pin_to_oldest"
    /\ pc = "pinned"
    /\ again' = pin_to_oldest(oldest)
    /\ pc' = "done"
    /\ UNCHANGED <<op, sources, files, cfgFile, tomlFile, requirements, oldest,
                   err, named, repeated, plan, extracted, out>>
    /\ UNCHANGED <<driverVars, cacheVars>>

SpecPin == InitPin /\ [][PinToOldest \/ PinAgain]_vars

Pinned == op = "pin_to_oldest" /\ pc # "ready"
PinnedTwice == op = "pin_to_oldest" /\ pc = "done"

\* s holds the text p somewhere
Contains(s, p) ==
    \E i \in 1..(Len(s) - Len(p) + 1) : SubSeq(s, i, i + Len(p) - 1) = p

\* the first character of the line that is not whitespace is the comment mark
IsComment(line) ==
    \E i \in 1..Len(line) :
        /\ line[i] = "#"
        /\ \A j \in 1..(i - 1) : line[j] \in {" ", "\t", "\n"}

\* the line begins with the comment mark
BeginsWithHash(line) == line # <<>> /\ line[1] = "#"

\* the text of the line before its first comma (the whole line without one)
FirstClause(line) ==
    LET k == CHOOSE k \in 0..Len(line) :
                 /\ \A j \in 1..k : line[j] # ","
                 /\ (k = Len(line) \/ line[k + 1] = ",")
    IN  SubSeq(line, 1, k)

\* s with every ">=" rewritten to "==": a ">" that a "=" follows becomes "="
Rewritten(s) ==
    [p \in 1..Len(s) |->
        IF s[p] = ">" /\ p < Len(s) /\ s[p + 1] = "=" THEN "=" ELSE s[p]]

\* r is s without its leading and trailing whitespace
IsStripOf(r, s) ==
    \E i \in 1..(Len(s) + 1) : \E j \in 0..Len(s) :
        /\ r = SubSeq(s, i, j)
        /\ \A k \in 1..(i - 1) : s[k] \in {" ", "\t", "\n"}
        /\ \A k \in (j + 1)..Len(s) : s[k] \in {" ", "\t", "\n"}
        /\ (r # <<>> => r[1] \notin {" ", "\t", "\n"}
                        /\ r[Len(r)] \notin {" ", "\t", "\n"})

\* r is the first clause of the line, pinned and stripped
IsPinnedClause(r, line) == IsStripOf(r, Rewritten(FirstClause(line)))

\* C6 (as stated): pinning is idempotent on any list of lines.
C6_AsStated == PinnedTwice => again = oldest

\* C6 (amended): pinning the pinned list gives the pinned list again exactly
\* when no specifier line of the list has the characters ">>=" in the text
\* before its first comma.
C6_Idempotence ==
    PinnedTwice =>
        (again = oldest
            <=> \A i \in 1..Len(requirements) :
                    IsComment(requirements[i])
                    \/ ~Contains(FirstClause(requirements[i]), <<">", ">", "=">>))

C6_Witness ==
    /\ PinnedTwice
    /\ requirements = << <<"a", ">", "=", "a">> >>
    /\ oldest = << <<"a", "=", "=", "a">> >>
    /\ again = oldest

\* the lines of the pinning table
Bla_ge_12 == <<"b", "l", "a", ">", "=", "1", "2">>
Bla_eq_12 == <<"b", "l", "a", "=", "=", "1", "2">>
Bla_lt_12 == <<"b", "l", "a", "<", "1", "2">>
Bla_ge_11_lt_12 == <<"b", "l", "a", ">", "=", "1", "1", ",", "<", "1", "2">>
Bla_eq_11 == <<"b", "l", "a", "=", "=", "1", "1">>

PinningTable ==
    pin_to_oldest(<<Bla_ge_12, Bla_lt_12, Bla_ge_11_lt_12>>)
        = <<Bla_eq_12, Bla_lt_12, Bla_eq_11>>

\* C7 (as stated): pin_to_oldest keeps the length of the list, returns every
\* line that begins with "#" unchanged, and every other line as the text before
\* its first comma with ">=" rewritten to "==" and surrounding whitespace
\* stripped.
C7_AsStated ==
    Pinned =>
        /\ Len(oldest) = Len(requirements)
        /\ \A i \in 1..Len(requirements) :
              IF BeginsWithHash(requirements[i])
              THEN oldest[i] = requirements[i]
              ELSE IsPinnedClause(oldest[i], requirements[i])
        /\ PinningTable

\* C7 (amended): pin_to_oldest keeps the length of the list, returns every
\* line whose first character that is not whitespace is "#" unchanged, and
\* every other line as the text before its first comma with ">=" rewritten to
\* "==" and surrounding whitespace stripped.
C7_LineByLine ==
    Pinned =>
        /\ Len(oldest) = Len(requirements)
        /\ \A i \in 1..Len(requirements) :
              IF IsComment(requirements[i])
              THEN oldest[i] = requirements[i]
              ELSE IsPinnedClause(oldest[i], requirements[i])
        /\ PinningTable

C7_Witness ==
    /\ Pinned
    /\ requirements = << <<"#">>, <<" ", ">", "=">> >>
    /\ oldest = << <<"#">>, <<"=", "=">> >>

(***************************************************************************)
(* The configuration locator, get_sources_and_config_files, and the run    *)
(* that hands its plan to the extractors. A plan is the list of its        *)
(* entries [file, categories], pyproject.toml before setup.cfg.            *)
(***************************************************************************)
ConfigFiles == {"setup.cfg", "pyproject.toml"}

\* the requests validate_sources accepts
ValidRequests == {S \in SourceLists : validate_sources(S).kind = "ok"}

\* what an extractor may raise
ExtractorErrors == {"MissingSection", "MissingField", "UnsupportedCategory"}

Entry(f, cats) == [file |-> f, categories |-> cats]

\* the entries whose list of categories is not empty
NonEmpty(entries) == SelectSeq(entries, LAMBDA e : e.categories # <<>>)

Located(p) == [kind |-> "ok", plan |-> p]
NotLocated(k) == [kind |-> k, plan |-> <<>>]

\* a variant that never probes the working directory: install and extras go
\* to setup.cfg and build to pyproject.toml, whatever is present
locate_without_probe(S, present) ==
    Located(NonEmpty(<<Entry("pyproject.toml", SelectSeq(S, LAMBDA c : c = "build")),
                       Entry("setup.cfg", SelectSeq(S, LAMBDA c : c # "build"))>>))

\* a variant that gives build to setup.cfg when pyproject.toml is missing
locate_without_build_check(S, present) ==
    IF present = {} THEN NotLocated("NoConfigFound")
    ELSE IF "setup.cfg" \notin present
         THEN Located(<<Entry("pyproject.toml", S)>>)
    ELSE IF "pyproject.toml" \notin present
         THEN Located(<<Entry("setup.cfg", S)>>)
    ELSE Located(NonEmpty(
             <<Entry("pyproject.toml", SelectSeq(S, LAMBDA c : c = "build")),
               Entry("setup.cfg", SelectSeq(S, LAMBDA c : c # "build"))>>))

\* a variant that keeps the entries whose list of categories is empty
locate_keeping_empty(S, present) ==
    IF present = {} THEN NotLocated("NoConfigFound")
    ELSE IF "setup.cfg" \notin present
         THEN Located(<<Entry("pyproject.toml", S)>>)
    ELSE IF "pyproject.toml" \notin present
         THEN IF "build" \in Range(S)
              THEN NotLocated("BuildRequiresPyproject")
              ELSE Located(<<Entry("setup.cfg", S)>>)
    ELSE Located(<<Entry("pyproject.toml", SelectSeq(S, LAMBDA c : c = "build")),
                   Entry("setup.cfg", SelectSeq(S, LAMBDA c : c # "build"))>>)

get_sources_and_config_files(S, present) ==
    IF present = {} THEN NotLocated("NoConfigFound")
    ELSE IF "setup.cfg" \notin present
         THEN Located(<<Entry("pyproject.toml", S)>>)
    ELSE IF "pyproject.toml" \notin present
         THEN IF "build" \in Range(S)
              THEN NotLocated("BuildRequiresPyproject")
              ELSE Located(<<Entry("setup.cfg", S)>>)
    ELSE Located(NonEmpty(
             <<Entry("pyproject.toml", SelectSeq(S, LAMBDA c : c = "build")),
               Entry("setup.cfg", SelectSeq(S, LAMBDA c : c # "build"))>>))

InitLocate ==
    /\ op = "locate"
    /\ pc = "ready"
    /\ sources \in ValidRequests
    /\ files \in SUBSET ConfigFiles
    /\ cfgFile = NoCfg
    /\ tomlFile = NoToml
    /\ requirements = <<>>
    /\ source = <<>>
    /\ parser = <<>>
    /\ Idle

\* the locator runs on the validated request
Locate ==
    /\ op = "locate"
    /\ pc = "ready"
    /\ LET r == get_sources_and_config_files(sources, files)
       IN  /\ err' = r.kind
           /\ plan' = r.plan
           /\ pc' = IF r.kind = "ok" THEN "located" ELSE "failed"
    /\ UNCHANGED <<op, sources, files, cfgFile, tomlFile, requirements,
                   oldest, again, named, repeated, extracted, out>>
    /\ UNCHANGED <<driverVars, cacheVars>>

\* the next file of the plan is handed to its extractor, which returns or
\* raises one of its errors; an error ends the run
ExtractNext ==
    /\ op = "locate"
    /\ pc = "located"
    /\ Len(extracted) < Len(plan)
    /\ extracted' = Append(extracted, plan[Len(extracted) + 1].file)
    /\ \E k \in {"ok"} \cup ExtractorErrors :
          /\ err' = k
          /\ pc' = IF k = "ok" THEN "located" ELSE "failed"
    /\ UNCHANGED <<op, sources, files, cfgFile, tomlFile, requirements,
                   oldest, again, named, repeated, plan, out>>
    /\ UNCHANGED <<driverVars, cacheVars>>

\* every file of the plan has been extracted
Finish ==
    /\ op = "locate"
    /\ pc = "located"
    /\ Len(extracted) = Len(plan)
    /\ pc' = "done"
    /\ UNCHANGED <<op, sources, files, cfgFile, tomlFile, requirements,
                   oldest, again, err, named, repeated, plan, extracted, out>>
    /\ UNCHANGED <<driverVars, cacheVars>>

SpecLocate == InitLocate /\ [][Locate \/ ExtractNext \/ Finish]_vars

LocatorRan == op = "locate" /\ pc # "ready"

\* the categories of the request other than build, in the requested order
RECURSIVE WithoutBuild(_)
WithoutBuild(S) ==
    IF S = <<>> THEN <<>>
    ELSE IF Head(S) = "build" THEN WithoutBuild(Tail(S))
    ELSE <<Head(S)>> \o WithoutBuild(Tail(S))

\* the entries of the plan for the file f
EntriesFor(f) == {i \in 1..Len(plan) : plan[i].file = f}

C5_WitnessOmitted ==
    /\ LocatorRan
    /\ files = {"setup.cfg", "pyproject.toml"}
    /\ sources = <<"build">>
    /\ plan = <<[file |-> "pyproject.toml", categories |-> <<"build">>]>>

(***************************************************************************)
(* parsers.py: the two extractors.                                         *)
(*                                                                         *)
(* A table or section that may be absent is a record [has, ...]. The       *)
(* content of setup.cfg is what configparser's items() gives: each value   *)
(* one text, the entries of a multi-line value on lines of their own.      *)
(* The content of pyproject.toml is what tomli.load gives: each array a    *)
(* list of texts. A mapping of extras groups is the list of its items in   *)
(* the order of declaration, the names all different.                      *)
(***************************************************************************)
CfgInstallHeader ==
    <<"#", " ", "I", "n", "s", "t", "a", "l", "l", " ", "(", "r", "u", "n",
      "-", "t", "i", "m", "e", ")", " ", "d", "e", "p", "e", "n", "d", "e",
      "n", "c", "i", "e", "s", " ", "f", "r", "o", "m", " ", "s", "e", "t",
      "u", "p", ".", "c", "f", "g">>

CfgExtrasHeader ==
    <<"#", " ", "E", "x", "t", "r", "a", " ", "(", "o", "p", "t", "i", "o",
      "n", "a", "l", ")", " ", "d", "e", "p", "e", "n", "d", "e", "n", "c",
      "i", "e", "s", " ", "f", "r", "o", "m", " ", "s", "e", "t", "u", "p",
      ".", "c", "f", "g">>

TomlBuildHeader ==
    <<"#", " ", "B", "u", "i", "l", "d", " ", "d", "e", "p", "e", "n", "d",
      "e", "n", "c", "i", "e", "s", " ", "f", "r", "o", "m", " ", "p", "y",
      "p", "r", "o", "j", "e", "c", "t", ".", "t", "o", "m", "l">>

TomlInstallHeader ==
    <<"#", " ", "I", "n", "s", "t", "a", "l", "l", " ", "d", "e", "p", "e",
      "n", "d", "e", "n", "c", "i", "e", "s", " ", "f", "r", "o", "m", " ",
      "p", "y", "p", "r", "o", "j", "e", "c", "t", ".", "t", "o", "m", "l">>

TomlExtrasHeader ==
    <<"#", " ", "E", "x", "t", "r", "a", " ", "(", "o", "p", "t", "i", "o",
      "n", "a", "l", ")", " ", "d", "e", "p", "e", "n", "d", "e", "n", "c",
      "i", "e", "s", " ", "f", "r", "o", "m", " ", "p", "y", "p", "r", "o",
      "j", "e", "c", "t", ".", "t", "o", "m", "l">>

ExtraLabelPrefix ==
    <<"#", " ", " ", " ", "e", "x", "t", "r", "a", ":", " ">>

\* f"#   extra: {section}"
ExtraLabel(section) == ExtraLabelPrefix \o section

\* what a call returns, or the error it raises
Return(lines) == [kind |-> "ok", lines |-> lines]
Fail(k) == [kind |-> k, lines |-> <<>>]

\* a then b, unless a raised
Then(a, b) ==
    IF a.kind # "ok" THEN a
    ELSE IF b.kind # "ok" THEN b
    ELSE Return(a.lines \o b.lines)

\* package.strip().replace(" ", "")
StripAndRemoveSpaces(package) == Replace(Strip(package), <<" ">>, <<>>)

\* [package.strip() for package in value.strip().split("\n")]
StrippedLines(value) ==
    LET parts == Split(Strip(value), "\n")
    IN  [i \in 1..Len(parts) |-> Strip(parts[i])]

\* [package.strip() for package in packages]
StripEach(packages) == [i \in 1..Len(packages) |-> Strip(packages[i])]

\* [package.strip().replace(" ", "") for package in packages]
StripAndRemoveSpacesEach(packages) ==
    [i \in 1..Len(packages) |-> StripAndRemoveSpaces(packages[i])]

\* ParserSetupCfg.config: every value of every section stripped
ParserSetupCfg_config(file) ==
    [options |-> file.options,
     install_requires |->
         [has |-> file.install_requires.has,
          value |-> Strip(file.install_requires.value)],
     extras_require |->
         [has |-> file.extras_require.has,
          items |-> [i \in 1..Len(file.extras_require.items) |->
                        [section |-> file.extras_require.items[i].section,
                         value |-> Strip(file.extras_require.items[i].value)]]]]

ParserSetupCfg_parse_install_dependencies(config) ==
    IF ~config.options THEN Fail("KeyError")
    ELSE IF ~config.install_requires.has THEN Fail("MissingField")
    ELSE Return(<<CfgInstallHeader>> \o StrippedLines(config.install_requires.value))

ParserSetupCfg_parse_extra_dependencies(config) ==
    IF ~config.extras_require.has THEN Fail("MissingSection")
    ELSE LET items == config.extras_require.items
             group(item) == <<ExtraLabel(item.section)>> \o StrippedLines(item.value)
         IN  Return(<<CfgExtrasHeader>>
                        \o Flatten([i \in 1..Len(items) |-> group(items[i])]))

\* a variant that takes the sources in the order the caller gives them
RECURSIVE ParserSetupCfg_in_caller_order(_, _)
ParserSetupCfg_in_caller_order(config, S) ==
    IF S = <<>> THEN Return(<<>>)
    ELSE Then(IF Head(S) = "install"
              THEN ParserSetupCfg_parse_install_dependencies(config)
              ELSE ParserSetupCfg_parse_extra_dependencies(config),
              ParserSetupCfg_in_caller_order(config, Tail(S)))

ParserSetupCfg_parse_requirements_caller_order(file, S) ==
    IF validate_sources(S).kind # "ok" THEN Fail(validate_sources(S).kind)
    ELSE IF "build" \in Range(S) THEN Fail("UnsupportedCategory")
    ELSE ParserSetupCfg_in_caller_order(ParserSetupCfg_config(file), S)

\* a variant that refuses build only when nothing else is asked for
ParserSetupCfg_parse_requirements_build_alone(file, S) ==
    LET config == ParserSetupCfg_config(file)
    IN  IF validate_sources(S).kind # "ok" THEN Fail(validate_sources(S).kind)
        ELSE IF Range(S) = {"build"} THEN Fail("UnsupportedCategory")
        ELSE Then(IF "install" \in Range(S)
                  THEN ParserSetupCfg_parse_install_dependencies(config)
                  ELSE Return(<<>>),
                  IF "extras" \in Range(S)
                  THEN ParserSetupCfg_parse_extra_dependencies(config)
                  ELSE Return(<<>>))

ParserSetupCfg_parse_requirements(file, S) ==
    LET config == ParserSetupCfg_config(file)
    IN  IF validate_sources(S).kind # "ok" THEN Fail(validate_sources(S).kind)
        ELSE IF "build" \in Range(S) THEN Fail("UnsupportedCategory")
        ELSE Then(IF "install" \in Range(S)
                  THEN ParserSetupCfg_parse_install_dependencies(config)
                  ELSE Return(<<>>),
                  IF "extras" \in Range(S)
                  THEN ParserSetupCfg_parse_extra_dependencies(config)
                  ELSE Return(<<>>))

ParserPyprojectToml_parse_build_dependencies(config) ==
    IF ~config.build_system.has THEN Fail("MissingSection")
    ELSE IF ~config.build_system.requires.has THEN Fail("MissingField")
    ELSE Return(<<TomlBuildHeader>> \o StripEach(config.build_system.requires.value))

ParserPyprojectToml_parse_install_dependencies(config) ==
    IF ~config.project.has THEN Fail("MissingSection")
    ELSE IF ~config.project.dependencies.has THEN Fail("MissingField")
    ELSE Return(<<TomlInstallHeader>>
                    \o StripAndRemoveSpacesEach(config.project.dependencies.value))

ParserPyprojectToml_parse_extra_dependencies(config) ==
    IF ~config.project.has THEN Fail("MissingSection")
    ELSE IF ~config.project.optional_dependencies.has THEN Fail("MissingSection")
    ELSE LET items == config.project.optional_dependencies.items
             group(item) == <<ExtraLabel(item.section)>>
                                \o StripAndRemoveSpacesEach(item.packages)
         IN  Return(<<TomlExtrasHeader>>
                        \o Flatten([i \in 1..Len(items) |-> group(items[i])]))

\* a variant that takes the sources in the order the caller gives them
RECURSIVE ParserPyprojectToml_in_caller_order(_, _)
ParserPyprojectToml_in_caller_order(config, S) ==
    IF S = <<>> THEN Return(<<>>)
    ELSE Then(IF Head(S) = "build"
              THEN ParserPyprojectToml_parse_build_dependencies(config)
              ELSE IF Head(S) = "install"
              THEN ParserPyprojectToml_parse_install_dependencies(config)
              ELSE ParserPyprojectToml_parse_extra_dependencies(config),
              ParserPyprojectToml_in_caller_order(config, Tail(S)))

ParserPyprojectToml_parse_requirements_caller_order(config, S) ==
    IF validate_sources(S).kind # "ok" THEN Fail(validate_sources(S).kind)
    ELSE ParserPyprojectToml_in_caller_order(config, S)

\* ParserPyprojectToml.config is the loaded file itself
ParserPyprojectToml_parse_requirements(config, S) ==
    IF validate_sources(S).kind # "ok" THEN Fail(validate_sources(S).kind)
    ELSE Then(IF "build" \in Range(S)
              THEN ParserPyprojectToml_parse_build_dependencies(config)
              ELSE Return(<<>>),
              Then(IF "install" \in Range(S)
                   THEN ParserPyprojectToml_parse_install_dependencies(config)
                   ELSE Return(<<>>),
                   IF "extras" \in Range(S)
                   THEN ParserPyprojectToml_parse_extra_dependencies(config)
                   ELSE Return(<<>>)))

(***************************************************************************)
(* The run that calls parse_requirements of one parser on one file.        *)
(***************************************************************************)
\* the entries a file declares, as the file spells them: one with blanks
\* around and inside it, one with a tab inside it
Packages == {<<" ", "a", " ", ">", "=", " ", "1", " ">>, <<"b", "\t", "c">>}

GroupNames == {<<"d", "o", "c", "s">>, <<"j", "u", "p", "y", "t", "e", "r">>,
               <<"t", "e", "s", "t">>}

\* the lists of at most MaxGroups different group names
GroupLists ==
    {g \in SeqsUpTo(GroupNames, MaxGroups) :
        \A i, j \in 1..Len(g) : i # j => g[i] # g[j]}

\* the requests given to parse_requirements: the valid ones, and one of each
\* kind validate_sources rejects
ExtractRequests ==
    ValidRequests \cup {<<>>, <<"invalid">>, <<"build", "build">>}

\* the value configparser gives for a key with these entries, one per line
CfgValue(entries) ==
    IF entries = <<>> THEN <<>> ELSE <<"\n">> \o Join(entries, <<"\n">>)

\* setup.cfg with these sections and keys; lists[1] holds the entries of
\* install_requires, lists[i + 1] those of the i-th extras group
MakeCfg(options, install, extras, names, lists) ==
    [options |-> options,
     install_requires |-> [has |-> install, value |-> CfgValue(lists[1])],
     extras_require |->
         [has |-> extras,
          items |-> [i \in 1..Len(names) |->
                        [section |-> names[i], value |-> CfgValue(lists[i + 1])]]]]

\* pyproject.toml with these tables and keys; lists[1] holds the entries of
\* build-system.requires, lists[2] those of project.dependencies, lists[i + 2]
\* those of the i-th group of project.optional-dependencies
MakeToml(build, requires, project, depends, optional, names, lists) ==
    [build_system |-> [has |-> build,
                       requires |-> [has |-> requires, value |-> lists[1]]],
     project |->
         [has |-> project,
          dependencies |-> [has |-> depends, value |-> lists[2]],
          optional_dependencies |->
              [has |-> optional,
               items |-> [i \in 1..Len(names) |->
                             [section |-> names[i], packages |-> lists[i + 2]]]]]]

\* the lists of entries of the slots of a file: at most MaxEntries entries in
\* the file, none in a slot that is absent
SlotLists(present) ==
    UNION {{Cut(flat, lens) : flat \in [1..Sum(lens) -> Packages]} :
              lens \in {l \in [1..Len(present) -> 0..MaxEntries] :
                           /\ Sum(l) <= MaxEntries
                           /\ \A i \in 1..Len(present) : ~present[i] => l[i] = 0}}

InitExtractCfg ==
    /\ op = "ParserSetupCfg.parse_requirements"
    /\ files = {"setup.cfg"}
    /\ tomlFile = NoToml
    /\ \E options, install, extras \in BOOLEAN : \E names \in GroupLists :
          /\ install => options
          /\ ~extras => names = <<>>
          /\ \E lists \in SlotLists(<<install>> \o [i \in 1..Len(names) |-> TRUE]) :
                cfgFile = MakeCfg(options, install, extras, names, lists)

InitExtractToml ==
    /\ op = "ParserPyprojectToml.parse_requirements"
    /\ files = {"pyproject.toml"}
    /\ cfgFile = NoCfg
    /\ \E build, requires, project, depends, optional \in BOOLEAN :
       \E names \in GroupLists :
          /\ requires => build
          /\ depends => project
          /\ optional => project
          /\ ~optional => names = <<>>
          /\ \E lists \in SlotLists(<<requires, depends>>
                                       \o [i \in 1..Len(names) |-> TRUE]) :
                tomlFile = MakeToml(build, requires, project, depends,
                                    optional, names, lists)

InitExtract ==
    /\ pc = "ready"
    /\ sources \in ExtractRequests
    /\ requirements = <<>>
    /\ source = <<>>
    /\ parser = <<>>
    /\ Idle
    /\ (InitExtractCfg \/ InitExtractToml)

ParseSetupCfg ==
    /\ op = "ParserSetupCfg.parse_requirements"
    /\ pc = "ready"
    /\ LET r == ParserSetupCfg_parse_requirements(cfgFile, sources)
       IN  err' = r.kind /\ out' = r.lines
    /\ pc' = "done"
    /\ UNCHANGED <<op, sources, files, cfgFile, tomlFile, requirements,
                   oldest, again, named, repeated, plan, extracted>>
    /\ UNCHANGED <<driverVars, cacheVars>>

ParsePyprojectToml ==
    /\ op = "ParserPyprojectToml.parse_requirements"
    /\ pc = "ready"
    /\ LET r == ParserPyprojectToml_parse_requirements(tomlFile, sources)
       IN  err' = r.kind /\ out' = r.lines
    /\ pc' = "done"
    /\ UNCHANGED <<op, sources, files, cfgFile, tomlFile, requirements,
                   oldest, again, named, repeated, plan, extracted>>
    /\ UNCHANGED <<driverVars, cacheVars>>

SpecExtract == InitExtract /\ [][ParseSetupCfg \/ ParsePyprojectToml]_vars

IsCfg == op = "ParserSetupCfg.parse_requirements"
IsToml == op = "ParserPyprojectToml.parse_requirements"

\* parse_requirements has returned a list
Extracted == (IsCfg \/ IsToml) /\ pc = "done" /\ err = "ok"

\* the header line of a category, in the format of the file of the run
HeaderOf(c) ==
    IF IsCfg
    THEN (IF c = "install" THEN CfgInstallHeader ELSE CfgExtrasHeader)
    ELSE (IF c = "build" THEN TomlBuildHeader
          ELSE IF c = "install" THEN TomlInstallHeader ELSE TomlExtrasHeader)

\* the categories the format of the file of the run has a header for
HeaderCategories ==
    IF IsCfg THEN {"install", "extras"} ELSE {"build", "install", "extras"}

IsHeader(line) == \E c \in HeaderCategories : line = HeaderOf(c)

\* the number of entries a value of setup.cfg declares: its lines that hold
\* more than whitespace
DeclaredInValue(value) ==
    LET parts == Split(value, "\n")
    IN  Cardinality({i \in 1..Len(parts) :
                        \E k \in 1..Len(parts[i]) :
                            parts[i][k] \notin {" ", "\t", "\n"}})

\* the extras groups the file of the run declares: name and number of entries
DeclaredGroups ==
    IF IsCfg
    THEN [i \in 1..Len(cfgFile.extras_require.items) |->
            [section |-> cfgFile.extras_require.items[i].section,
             n |-> DeclaredInValue(cfgFile.extras_require.items[i].value)]]
    ELSE [i \in 1..Len(tomlFile.project.optional_dependencies.items) |->
            [section |-> tomlFile.project.optional_dependencies.items[i].section,
             n |-> Len(tomlFile.project.optional_dependencies.items[i].packages)]]

\* where the label of the g-th group stands when the extras header stands at h
\* (for g one more than the number of groups: where the block ends)
RECURSIVE LabelAt(_, _)
LabelAt(h, g) ==
    IF g = 1 THEN h + 1 ELSE LabelAt(h, g - 1) + 1 + DeclaredGroups[g - 1].n

\* C8: in the list a successful parse_requirements returns, every requested
\* category has exactly one header line, the list begins with a header and
\* holds no other header; after the extras header come, for each declared
\* group in the order of declaration, one label line and then exactly the
\* entries of the group, none for a group without entries, and then the next
\* header or the end of the list.
C8_OutputStructure ==
    Extracted =>
        /\ out # <<>> /\ IsHeader(out[1])
        /\ \A c \in HeaderCategories :
              Cardinality({i \in 1..Len(out) : out[i] = HeaderOf(c)})
                  = (IF \E i \in 1..Len(sources) : sources[i] = c THEN 1 ELSE 0)
        /\ \A h \in 1..Len(out) :
              out[h] = HeaderOf("extras") =>
                  /\ \A g \in 1..Len(DeclaredGroups) :
                        /\ LabelAt(h, g) + DeclaredGroups[g].n <= Len(out)
                        /\ out[LabelAt(h, g)]
                              = <<"#", " ", " ", " ", "e", "x", "t", "r", "a", ":", " ">>
                                    \o DeclaredGroups[g].section
                        /\ \A j \in 1..DeclaredGroups[g].n :
                              /\ out[LabelAt(h, g) + j] # <<>>
                              /\ out[LabelAt(h, g) + j][1] # "#"
                  /\ LET end == LabelAt(h, Len(DeclaredGroups) + 1)
                     IN  end = Len(out) + 1 \/ (end <= Len(out) /\ IsHeader(out[end]))

\* the block of one category: what the parser's method for it returns
Block(c) ==
    IF IsCfg
    THEN (IF c = "install"
          THEN ParserSetupCfg_parse_install_dependencies(ParserSetupCfg_config(cfgFile)).lines
          ELSE ParserSetupCfg_parse_extra_dependencies(ParserSetupCfg_config(cfgFile)).lines)
    ELSE (IF c = "build"
          THEN ParserPyprojectToml_parse_build_dependencies(tomlFile).lines
          ELSE IF c = "install"
          THEN ParserPyprojectToml_parse_install_dependencies(tomlFile).lines
          ELSE ParserPyprojectToml_parse_extra_dependencies(tomlFile).lines)

\* the blocks of the categories of the list S, one after the other
RECURSIVE Blocks(_)
Blocks(S) == IF S = <<>> THEN <<>> ELSE Block(Head(S)) \o Blocks(Tail(S))

Requested(c) == \E i \in 1..Len(sources) : sources[i] = c

\* the requested categories in the order build, install, extras
InFixedOrder ==
    (IF Requested("build") THEN <<"build">> ELSE <<>>)
        \o (IF Requested("install") THEN <<"install">> ELSE <<>>)
        \o (IF Requested("extras") THEN <<"extras">> ELSE <<>>)

\* C9 (as stated): the list parse_requirements returns is the blocks of the
\* categories in the order the caller supplied them.
C9_AsStated == Extracted => out = Blocks(sources)

\* C9 (amended): the list parse_requirements returns is the blocks of the
\* requested categories in the fixed order build, install, extras, whatever
\* the order the caller supplied them in.
C9_FixedOrder == Extracted => out = Blocks(InFixedOrder)

C9_Witness ==
    /\ Extracted
    /\ IsCfg
    /\ sources = <<"extras", "install">>
    /\ out[1] = CfgInstallHeader
    /\ out[3] = CfgExtrasHeader
    /\ Len(out) = 5

\* the lines that do not begin with the comment mark
NonComment(lines) == SelectSeq(lines, LAMBDA l : l = <<>> \/ l[1] # "#")

\* C10: the lines other than comments that parse_requirements returns are the
\* build dependencies, then the install dependencies, then the extras
\* dependencies, each only if requested, and the request returns what its
\* permutation in the order build, install, extras returns (so every two
\* permutations of a request return the same list).
C10_CanonicalOrder ==
    Extracted =>
        /\ NonComment(out)
              = (IF Requested("build") THEN NonComment(Block("build")) ELSE <<>>)
                \o (IF Requested("install") THEN NonComment(Block("install")) ELSE <<>>)
                \o (IF Requested("extras") THEN NonComment(Block("extras")) ELSE <<>>)
        /\ IF IsCfg
           THEN ParserSetupCfg_parse_requirements(cfgFile, InFixedOrder) = Return(out)
           ELSE ParserPyprojectToml_parse_requirements(tomlFile, InFixedOrder) = Return(out)

C10_Witness ==
    /\ Extracted
    /\ IsToml
    /\ sources = <<"extras", "install", "build">>
    /\ out[1] = TomlBuildHeader
    /\ Len(NonComment(out)) = 2
    /\ out[Len(out)] = <<"#", " ", " ", " ", "e", "x", "t", "r", "a", ":", " ",
                         "d", "o", "c", "s">>

\* parse_requirements has returned or raised, for a request validate_sources
\* accepts
ExtractedValid ==
    /\ IsCfg \/ IsToml
    /\ pc = "done"
    /\ validate_sources(sources).kind = "ok"

\* C11: for every valid request that holds build, at any position and with
\* any other members, ParserSetupCfg.parse_requirements raises
\* UnsupportedCategory and returns no line, whatever setup.cfg holds.
C11_BuildUnsupported ==
    (IsCfg /\ ExtractedValid /\ Requested("build")) =>
        /\ err = "UnsupportedCategory"
        /\ out = <<>>

\* build asked for last, of a setup.cfg that declares what install needs
C11_Witness ==
    /\ IsCfg
    /\ ExtractedValid
    /\ sources = <<"install", "build">>
    /\ cfgFile.options
    /\ cfgFile.install_requires.has
    /\ cfgFile.install_requires.value # <<>>
    /\ err = "UnsupportedCategory"

\* the key or table the category c requires is absent from the file of the run
RequiredAbsent(c) ==
    IF IsCfg
    THEN (IF c = "install"
          THEN ~cfgFile.options \/ ~cfgFile.install_requires.has
          ELSE c = "extras" /\ ~cfgFile.extras_require.has)
    ELSE (IF c = "build"
          THEN ~tomlFile.build_system.has \/ ~tomlFile.build_system.requires.has
          ELSE IF c = "install"
          THEN ~tomlFile.project.has \/ ~tomlFile.project.dependencies.has
          ELSE ~tomlFile.project.has \/ ~tomlFile.project.optional_dependencies.has)

\* C12: when a valid request (one without build, for setup.cfg) holds a
\* category whose key or table is absent from the file, parse_requirements
\* raises MissingSection or MissingField, no other kind of error, and returns
\* no list.
C12_MissingDeclarations ==
    (/\ ExtractedValid
     /\ ~(IsCfg /\ Requested("build"))
     /\ \E c \in valid_sources : Requested(c) /\ RequiredAbsent(c)) =>
        /\ err \in {"MissingSection", "MissingField"}
        /\ out = <<>>

\* a text without its whitespace characters, wherever they stand
WithoutWhitespace(s) == SelectSeq(s, LAMBDA ch : ch \notin Whitespace)

WithoutWhitespaceEach(packages) ==
    [i \in 1..Len(packages) |-> WithoutWhitespace(packages[i])]

\* the lines of a value of setup.cfg as the file spells them, each stripped
DeclaredLines(value) == {Strip(l) : l \in Range(Split(value, "\n"))}

\* the lines setup.cfg declares for the requested categories
DeclaredCfgLines ==
    (IF Requested("install")
     THEN DeclaredLines(cfgFile.install_requires.value) ELSE {})
        \cup (IF Requested("extras")
              THEN UNION {DeclaredLines(cfgFile.extras_require.items[i].value) :
                             i \in 1..Len(cfgFile.extras_require.items)}
              ELSE {})

\* what the claim says is returned for pyproject.toml: the build entries
\* stripped, the install and extras entries without any whitespace
NormalisedToml ==
    LET items == tomlFile.project.optional_dependencies.items
    IN  (IF Requested("build")
         THEN <<TomlBuildHeader>> \o StripEach(tomlFile.build_system.requires.value)
         ELSE <<>>)
        \o (IF Requested("install")
            THEN <<TomlInstallHeader>>
                     \o WithoutWhitespaceEach(tomlFile.project.dependencies.value)
            ELSE <<>>)
        \o (IF Requested("extras")
            THEN <<TomlExtrasHeader>>
                     \o Flatten([i \in 1..Len(items) |->
                             <<ExtraLabelPrefix \o items[i].section>>
                                 \o WithoutWhitespaceEach(items[i].packages)])
            ELSE <<>>)

\* C13: the list returned for pyproject.toml holds every install and extras
\* entry with all its whitespace characters removed (leading, trailing and
\* internal) and every build entry stripped of leading and trailing
\* whitespace only; every line returned for setup.cfg that is not a comment
\* is a declared line stripped of leading and trailing whitespace, its
\* internal whitespace kept.
C13_Normalisation ==
    Extracted =>
        IF IsToml
        THEN out = NormalisedToml
        ELSE \A i \in 1..Len(out) :
                (out[i] # <<>> /\ out[i][1] # "#") => out[i] \in DeclaredCfgLines

(***************************************************************************)
(* cli.py: main and the functions it calls. The text given with --source   *)
(* is a sequence of characters; the dictionary parse_sources returns is    *)
(* the list of its items in the order of insertion, setup.cfg first.       *)
(***************************************************************************)
InstallText == <<"i", "n", "s", "t", "a", "l", "l">>
ExtrasText == <<"e", "x", "t", "r", "a", "s">>
BuildText == <<"b", "u", "i", "l", "d">>

\* a file that cannot be parsed
Malformed == [malformed |-> TRUE]

\* what parse_sources returns, or the error it raises
Routed(p) == [kind |-> "ok", plan |-> p]
NotRouted(k) == [kind |-> k, plan |-> <<>>]

\* the keys of the entries that pass the test in, in their order
RECURSIVE Keys(_, _, _)
Keys(entries, in, key) ==
    IF entries = <<>> THEN <<>>
    ELSE (IF Head(entries) \in in THEN <<key[Head(entries)]>> ELSE <<>>)
             \o Keys(Tail(entries), in, key)

parse_sources(text) ==
    LET entries == Split(Strip(text), ",")
        key == [e \in {InstallText, ExtrasText, BuildText} |->
                   IF e = InstallText THEN "install_requires"
                   ELSE IF e = ExtrasText THEN "options.extras_require"
                   ELSE "build-system"]
    IN  IF \E i \in 1..Len(entries) :
              entries[i] \notin {InstallText, ExtrasText, BuildText}
        THEN NotRouted("InvalidCategory")
        ELSE Routed(<<Entry("setup.cfg",
                            Keys(entries, {InstallText, ExtrasText}, key)),
                      Entry("pyproject.toml", Keys(entries, {BuildText}, key))>>)

\* what a reader returns, or the error it raises
Read(config) == [kind |-> "ok", config |-> config]
NotRead(k) == [kind |-> k, config |-> <<>>]

\* config.read("setup.cfg") skips a file that is missing
read_setup_cfg(present, file) ==
    IF "setup.cfg" \notin present THEN Read(NoCfg)
    ELSE IF file = Malformed THEN NotRead("ParsingError")
    ELSE Read(file)

read_pyproject_toml(present, file) ==
    IF "pyproject.toml" \notin present THEN NotRead("FileNotFoundError")
    ELSE IF file = Malformed THEN NotRead("TOMLDecodeError")
    ELSE Read(file)

RECURSIVE parse_setup_cfg(_, _)
parse_setup_cfg(config, S) ==
    IF S = <<>> THEN Return(<<>>)
    ELSE Then(IF Head(S) = "install_requires"
              THEN (IF ~config.options THEN Fail("KeyError")
                    ELSE IF ~config.install_requires.has THEN Fail("MissingField")
                    ELSE Return(<<CfgInstallHeader>>
                                    \o StrippedLines(config.install_requires.value)))
              ELSE IF Head(S) = "options.extras_require"
              THEN (IF ~config.extras_require.has THEN Fail("MissingSection")
                    ELSE LET items == config.extras_require.items
                         IN  Return(<<CfgExtrasHeader>>
                                 \o Flatten([i \in 1..Len(items) |->
                                        <<ExtraLabel(items[i].section)>>
                                            \o StrippedLines(items[i].value)])))
              ELSE Return(<<>>),
              parse_setup_cfg(config, Tail(S)))

RECURSIVE parse_pyproject_toml(_, _)
parse_pyproject_toml(config, S) ==
    IF S = <<>> THEN Return(<<>>)
    ELSE Then(IF Head(S) = "build-system"
              THEN (IF ~config.build_system.has THEN Fail("MissingSection")
                    ELSE IF ~config.build_system.requires.has
                    THEN Fail("MissingField")
                    ELSE Return(<<TomlBuildHeader>>
                                    \o StripEach(config.build_system.requires.value)))
              ELSE Return(<<>>),
              parse_pyproject_toml(config, Tail(S)))

\* a variant that skips what cannot be read or parsed
ReadAndParse_skipping_failures(f, S, present, cfg, toml) ==
    LET config == IF f = "setup.cfg" THEN read_setup_cfg(present, cfg)
                  ELSE read_pyproject_toml(present, toml)
        parsed == IF f = "setup.cfg" THEN parse_setup_cfg(config.config, S)
                  ELSE parse_pyproject_toml(config.config, S)
    IN  IF config.kind # "ok" THEN Return(<<>>)
        ELSE IF parsed.kind # "ok" THEN Return(<<>>)
        ELSE parsed

\* readers[config_file]() and then parsers[config_file](config, sources)
ReadAndParse(f, S, present, cfg, toml) ==
    LET config == IF f = "setup.cfg" THEN read_setup_cfg(present, cfg)
                  ELSE read_pyproject_toml(present, toml)
    IN  IF config.kind # "ok" THEN Fail(config.kind)
        ELSE IF f = "setup.cfg" THEN parse_setup_cfg(config.config, S)
        ELSE parse_pyproject_toml(config.config, S)

(***************************************************************************)
(* The run of main on a text and a working directory.                      *)
(***************************************************************************)
TextOf(c) ==
    IF c = "install" THEN InstallText
    ELSE IF c = "extras" THEN ExtrasText
    ELSE IF c = "build" THEN BuildText
    ELSE <<"d", "o", "c", "s">>

\* the text that asks for the sources of the list S
SourceText(S) == Join([i \in 1..Len(S) |-> TextOf(S[i])], <<",">>)

\* the texts given to main: every valid request, and an empty text, a
\* stranger alone and after a valid source, a source twice, a blank after
\* the comma, and whitespace around the text
SourceTexts ==
    {SourceText(S) : S \in ValidRequests}
        \cup {<<>>,
              SourceText(<<"docs">>),
              SourceText(<<"install", "docs">>),
              SourceText(<<"install", "install">>),
              InstallText \o <<",", " ">> \o BuildText,
              <<" ">> \o BuildText \o <<",">> \o ExtrasText \o <<"\n">>}

\* the extras groups of the setup.cfg of a run of main
MainGroupLists == {<<>>, <<<<"d", "o", "c", "s">>>>}

InitMain ==
    /\ op = "main"
    /\ pc = "ready"
    /\ source \in SourceTexts
    /\ sources = <<>>
    /\ requirements = <<>>
    /\ parser = <<>>
    /\ Idle
    /\ files \in SUBSET ConfigFiles
    /\ \E options, install, extras, build, requires, badCfg, badToml \in BOOLEAN :
       \E names \in MainGroupLists :
          /\ install => options
          /\ ~extras => names = <<>>
          /\ requires => build
          /\ badCfg => (~options /\ ~extras /\ "setup.cfg" \in files)
          /\ badToml => (~build /\ "pyproject.toml" \in files)
          /\ "setup.cfg" \notin files => (~options /\ ~extras)
          /\ "pyproject.toml" \notin files => ~build
          /\ \E lists \in SlotLists(<<install>> \o [i \in 1..Len(names) |-> TRUE]
                                       \o <<requires>>) :
                /\ cfgFile = IF badCfg THEN Malformed
                             ELSE MakeCfg(options, install, extras, names, lists)
                /\ tomlFile = IF badToml THEN Malformed
                              ELSE MakeToml(build, requires, FALSE, FALSE, FALSE, <<>>,
                                            <<lists[Len(lists)], <<>>>>)

\* sources = parse_sources(source); an error it raises ends the process
Main_ParseSources ==
    /\ op = "main"
    /\ pc = "ready"
    /\ LET r == parse_sources(source)
       IN  /\ err' = r.kind
           /\ plan' = r.plan
           /\ pc' = IF r.kind = "ok" THEN "loop" ELSE "exited"
           /\ status' = IF r.kind = "ok" THEN status ELSE 1
    /\ UNCHANGED <<op, sources, files, cfgFile, tomlFile, requirements, oldest,
                   again, named, repeated, extracted, out, source, config_file,
                   dependencies, stdout, cacheVars>>

\* one turn of the loop over the dictionary: the file is skipped when its list
\* is empty, else read and parsed; an error ends the process with status 1
Main_ConfigFile ==
    /\ op = "main"
    /\ pc = "loop"
    /\ config_file <= Len(plan)
    /\ LET entry == plan[config_file]
           r == ReadAndParse(entry.file, entry.categories, files, cfgFile, tomlFile)
       IN  IF entry.categories = <<>>
           THEN /\ config_file' = config_file + 1
                /\ UNCHANGED <<pc, err, extracted, dependencies, status>>
           ELSE /\ extracted' = Append(extracted, entry.file)
                /\ err' = r.kind
                /\ IF r.kind = "ok"
                   THEN /\ dependencies' = dependencies \o r.lines
                        /\ config_file' = config_file + 1
                        /\ UNCHANGED <<pc, status>>
                   ELSE /\ pc' = "exited"
                        /\ status' = 1
                        /\ UNCHANGED <<dependencies, config_file>>
    /\ UNCHANGED <<op, sources, files, cfgFile, tomlFile, requirements, oldest,
                   again, named, repeated, plan, out, source, stdout, cacheVars>>

\* click.echo(line) for the next line of dependencies
Main_Echo ==
    /\ op = "main"
    /\ pc = "loop"
    /\ config_file > Len(plan)
    /\ Len(stdout) < Len(dependencies)
    /\ stdout' = Append(stdout, dependencies[Len(stdout) + 1])
    /\ UNCHANGED <<op, pc, sources, files, cfgFile, tomlFile, requirements,
                   oldest, again, err, named, repeated, plan, extracted, out,
                   source, config_file, dependencies, status, cacheVars>>

\* sys.exit(0) after the last line
Main_Exit ==
    /\ op = "main"
    /\ pc = "loop"
    /\ config_file > Len(plan)
    /\ Len(stdout) = Len(dependencies)
    /\ pc' = "exited"
    /\ status' = 0
    /\ UNCHANGED <<op, sources, files, cfgFile, tomlFile, requirements, oldest,
                   again, err, named, repeated, plan, extracted, out, source,
                   config_file, dependencies, stdout, cacheVars>>

SpecMain ==
    InitMain /\ [][Main_ParseSources \/ Main_ConfigFile \/ Main_Echo \/ Main_Exit]_vars

IsMain == op = "main"

\* the request of the run passes parse_sources
RequestAccepted == parse_sources(source).kind = "ok"

\* the files the request has something for, in the order of the loop
Planned == NonEmpty(parse_sources(source).plan)

\* what reading and parsing the i-th planned file gives
PlannedOutcome(i) ==
    LET f == Planned[i].file
        S == Planned[i].categories
    IN  IF f = "setup.cfg"
        THEN (IF read_setup_cfg(files, cfgFile).kind # "ok"
              THEN Fail(read_setup_cfg(files, cfgFile).kind)
              ELSE parse_setup_cfg(read_setup_cfg(files, cfgFile).config, S))
        ELSE (IF read_pyproject_toml(files, tomlFile).kind # "ok"
              THEN Fail(read_pyproject_toml(files, tomlFile).kind)
              ELSE parse_pyproject_toml(read_pyproject_toml(files, tomlFile).config, S))

\* every step of the run succeeds: the request is accepted, every planned
\* file is read and everything asked of it is found
AllSucceed ==
    /\ RequestAccepted
    /\ \A i \in 1..Len(Planned) : PlannedOutcome(i).kind = "ok"

\* the lines of all the planned files
AllLines == Flatten([i \in 1..Len(Planned) |-> PlannedOutcome(i).lines])

\* C14: main writes a line to standard output only when the request was
\* accepted and every planned file has been read and parsed without error,
\* and what it writes is then the lines of all the planned files; when a step
\* fails (a request that is not accepted, a file that is missing, a field
\* that is missing) nothing is ever written, the lines collected from an
\* earlier file included, and the process ends with status 1 and never with
\* status 0.
C14_AllOrNothing ==
    IsMain =>
        /\ stdout # <<>> =>
              /\ AllSucceed
              /\ err = "ok"
              /\ extracted = [i \in 1..Len(Planned) |-> Planned[i].file]
              /\ dependencies = AllLines
              /\ Len(stdout) <= Len(AllLines)
              /\ stdout = SubSeq(AllLines, 1, Len(stdout))
        /\ ~AllSucceed =>
              /\ stdout = <<>>
              /\ status # 0
              /\ pc = "exited" => (status = 1 /\ err # "ok")
        /\ status = 0 => (AllSucceed /\ stdout = AllLines)

\* setup.cfg gave its lines, pyproject.toml failed: nothing was written
C14_Witness ==
    /\ IsMain
    /\ pc = "exited"
    /\ status = 1
    /\ extracted = <<"setup.cfg", "pyproject.toml">>
    /\ Len(dependencies) >= 2
    /\ err = "MissingField"
    /\ stdout = <<>>

\* what the request of the run asks of the file f
CategoriesFor(f) ==
    LET p == parse_sources(source).plan
    IN  p[CHOOSE i \in 1..Len(p) : p[i].file = f].categories

\* the run reads and parses both files
ExtractsBoth ==
    /\ IsMain
    /\ RequestAccepted
    /\ CategoriesFor("setup.cfg") # <<>>
    /\ CategoriesFor("pyproject.toml") # <<>>

\* the lines main collects from each file
SetupCfgLines ==
    parse_setup_cfg(read_setup_cfg(files, cfgFile).config,
                    CategoriesFor("setup.cfg")).lines

PyprojectTomlLines ==
    parse_pyproject_toml(read_pyproject_toml(files, tomlFile).config,
                         CategoriesFor("pyproject.toml")).lines

\* C15: whenever a run of main extracts from both files, pyproject.toml
\* is read and parsed before setup.cfg and the output is the lines of
\* pyproject.toml followed by the lines of setup.cfg.
C15_FileOrder ==
    ExtractsBoth =>
        /\ (extracted # <<>> => extracted[1] = "pyproject.toml")
        /\ (status = 0 => stdout = PyprojectTomlLines \o SetupCfgLines)

(***************************************************************************)
(* parsers.py: the property config of the two parser classes. An instance  *)
(* is a record: its class, whether it has the attribute _config, the       *)
(* mapping the attribute holds, and the number of times it has opened its  *)
(* file with success.                                                      *)
(***************************************************************************)
MaxCalls == 3        \* most accesses made to the parser instances in a run

ParserClasses == {"ParserSetupCfg", "ParserPyprojectToml"}

\* ParserSetupCfg(fname), ParserPyprojectToml(fname)
NewParser(cls) == [cls |-> cls, loaded |-> FALSE, _config |-> <<>>, opened |-> 0]

\* what an access gives: the instance after it, and the mapping or the error
Got(p, k, v) == [parser |-> p, kind |-> k, value |-> v]

\* the body of the property when the attribute is not set: open the file,
\* parse it, set the attribute; open raises for a missing file, the parsing
\* for a file that is malformed, and the attribute is then not set
load(p, present, cfg, toml) ==
    LET fname == IF p.cls = "ParserSetupCfg" THEN "setup.cfg" ELSE "pyproject.toml"
        file == IF p.cls = "ParserSetupCfg" THEN cfg ELSE toml
        opened == [p EXCEPT !.opened = p.opened + 1]
    IN  IF fname \notin present THEN Got(p, "FileNotFoundError", <<>>)
        ELSE IF file = Malformed
        THEN Got(opened,
                 IF p.cls = "ParserSetupCfg" THEN "ParsingError" ELSE "TOMLDecodeError",
                 <<>>)
        ELSE LET mapping == IF p.cls = "ParserSetupCfg"
                            THEN ParserSetupCfg_config(file) ELSE file
             IN  Got([opened EXCEPT !.loaded = TRUE, !._config = mapping],
                     "ok", mapping)

\* a variant without the test of hasattr: every access loads the file
config_always_loading(p, present, cfg, toml) == load(p, present, cfg, toml)

\* the property config
config(p, present, cfg, toml) ==
    IF p.loaded THEN Got(p, "ok", p._config) ELSE load(p, present, cfg, toml)

\* parse_requirements of an instance: the first method that runs reads
\* self.config, and the others then find the attribute set
parse_requirements(p, S, present, cfg, toml) ==
    IF validate_sources(S).kind # "ok" THEN Got(p, validate_sources(S).kind, <<>>)
    ELSE IF p.cls = "ParserSetupCfg" /\ "build" \in Range(S)
    THEN Got(p, "UnsupportedCategory", <<>>)
    ELSE LET c == config(p, present, cfg, toml)
             r == IF p.cls = "ParserSetupCfg"
                  THEN Then(IF "install" \in Range(S)
                            THEN ParserSetupCfg_parse_install_dependencies(c.value)
                            ELSE Return(<<>>),
                            IF "extras" \in Range(S)
                            THEN ParserSetupCfg_parse_extra_dependencies(c.value)
                            ELSE Return(<<>>))
                  ELSE ParserPyprojectToml_parse_requirements(c.value, S)
         IN  IF c.kind # "ok" THEN Got(c.parser, c.kind, <<>>)
             ELSE Got(c.parser, r.kind, r.lines)

(***************************************************************************)
(* The run that makes two parser instances and accesses them in any order. *)
(***************************************************************************)
\* a setup.cfg and a pyproject.toml that declare every category
FullCfg ==
    MakeCfg(TRUE, TRUE, TRUE, <<<<"d", "o", "c", "s">>>>,
            <<<<<<"b", "\t", "c">>>>, <<<<"b", "\t", "c">>>>>>)

FullToml ==
    MakeToml(TRUE, TRUE, TRUE, TRUE, TRUE, <<<<"d", "o", "c", "s">>>>,
             <<<<<<"b", "\t", "c">>>>, <<<<"b", "\t", "c">>>>, <<<<"b", "\t", "c">>>>>>)

\* the requests given to parse_requirements of an instance
CacheRequests ==
    {<<"install">>, <<"build">>, <<"extras", "install">>, <<"invalid">>}

InitCache ==
    /\ op = "parsers"
    /\ pc = "ready"
    /\ sources = <<>>
    /\ requirements = <<>>
    /\ source = <<>>
    /\ Idle
    /\ files \in SUBSET ConfigFiles
    /\ cfgFile \in IF "setup.cfg" \in files THEN {Malformed, NoCfg, FullCfg}
                   ELSE {NoCfg}
    /\ tomlFile \in IF "pyproject.toml" \in files THEN {Malformed, NoToml, FullToml}
                    ELSE {NoToml}
    /\ \E first, second \in ParserClasses :
          parser = <<NewParser(first), NewParser(second)>>

\* parser[i].config is read
AccessConfig ==
    /\ op = "parsers"
    /\ calls < MaxCalls
    /\ \E i \in 1..Len(parser) :
          LET r == config(parser[i], files, cfgFile, tomlFile)
          IN  /\ parser' = [parser EXCEPT ![i] = r.parser]
              /\ returned' = [kind |-> r.kind, who |-> i, call |-> "config",
                              value |-> r.value]
    /\ calls' = calls + 1
    /\ UNCHANGED <<op, pc, sources, files, cfgFile, tomlFile, requirements,
                   oldest, again, err, named, repeated, plan, extracted, out,
                   driverVars>>

\* parser[i].parse_requirements(S) is called
CallParseRequirements ==
    /\ op = "parsers"
    /\ calls < MaxCalls
    /\ \E i \in 1..Len(parser) : \E S \in CacheRequests :
          LET r == parse_requirements(parser[i], S, files, cfgFile, tomlFile)
          IN  /\ parser' = [parser EXCEPT ![i] = r.parser]
              /\ returned' = [kind |-> r.kind, who |-> i,
                              call |-> "parse_requirements", value |-> r.value]
    /\ calls' = calls + 1
    /\ UNCHANGED <<op, pc, sources, files, cfgFile, tomlFile, requirements,
                   oldest, again, err, named, repeated, plan, extracted, out,
                   driverVars>>

SpecCache == InitCache /\ [][AccessConfig \/ CallParseRequirements]_vars

IsCache == op = "parsers"

\* the file of the instance p, and whether it exists and can be parsed
FileOf(p) == IF p.cls = "ParserSetupCfg" THEN "setup.cfg" ELSE "pyproject.toml"

ContentOf(p) == IF p.cls = "ParserSetupCfg" THEN cfgFile ELSE tomlFile

Loads(p) == FileOf(p) \in files /\ ContentOf(p) # Malformed

\* the mapping the file of the instance p parses to
MappingOf(p) ==
    IF p.cls = "ParserSetupCfg" THEN ParserSetupCfg_config(cfgFile) ELSE tomlFile

\* C16 (as stated): over any sequence of accesses to config and calls of
\* parse_requirements, an instance opens and parses its file at most once.
C16_AsStated ==
    IsCache => \A i \in 1..Len(parser) : parser[i].opened <= 1

\* what holds of the instances in every state
CacheInvariant ==
    IsCache =>
        \A i \in 1..Len(parser) :
            /\ Loads(parser[i]) => parser[i].opened <= 1
            /\ parser[i].loaded <=> (Loads(parser[i]) /\ parser[i].opened = 1)
            /\ parser[i].loaded => parser[i]._config = MappingOf(parser[i])
            /\ FileOf(parser[i]) \notin files => parser[i].opened = 0

\* what holds of every access
CacheStep ==
    IsCache =>
        \A i \in 1..Len(parser) :
            /\ parser[i].loaded => parser'[i] = parser[i]
            /\ i # returned'.who => parser'[i] = parser[i]
            /\ (i = returned'.who /\ returned'.call = "config") =>
                  /\ returned'.kind = "ok" <=> Loads(parser[i])
                  /\ returned'.kind = "ok" =>
                        /\ returned'.value = MappingOf(parser[i])
                        /\ parser'[i].loaded
                  /\ (~parser[i].loaded /\ FileOf(parser[i]) \in files) =>
                        parser'[i].opened = parser[i].opened + 1

\* C16 (amended): an instance whose file exists and parses opens and parses
\* it at most once, at the first access that reads config; every later access
\* returns the same cached mapping and leaves the instance and the file
\* alone; an access that fails to load (the file is missing or malformed)
\* caches nothing, so the next access opens the file again; an access to one
\* instance changes nothing of another instance.
C16_LoadOnce == []CacheInvariant /\ [][CacheStep]_vars

\* the first instance was loaded by one access and read twice more, the
\* second one never touched
C16_Witness ==
    /\ IsCache
    /\ calls = 3
    /\ returned.who = 1
    /\ returned.call = "config"
    /\ returned.kind = "ok"
    /\ parser[1].loaded
    /\ parser[1].opened = 1
    /\ parser[2].cls = parser[1].cls
    /\ ~parser[2].loaded
    /\ parser[2].opened = 0

(***************************************************************************)
(* Every run of the model: one operation on one input.                     *)
(***************************************************************************)
Init ==
    InitValidate \/ InitLocate \/ InitPin \/ InitExtract \/ InitMain \/ InitCache

Next ==
    \/ ValidateSources
    \/ Locate
    \/ ExtractNext
    \/ Finish
    \/ PinToOldest
    \/ PinAgain
    \/ ParseSetupCfg
    \/ ParsePyprojectToml
    \/ Main_ParseSources
    \/ Main_ConfigFile
    \/ Main_Echo
    \/ Main_Exit
    \/ AccessConfig
    \/ CallParseRequirements

Spec == Init /\ [][Next]_vars

====
